---- MODULE Spec2Model ----
(***************************************************************************)
(* A model of the Go-SDL2 binding (package sdl, package mixer): goroutines *)
(* calling the binding's entry points, the locks each entry point takes    *)
(* (GlobalMutex, the per-surface RWMutex), the native handles the wrappers *)
(* hold, and the event collector that republishes native events.           *)
(*                                                                         *)
(* A call is split at its synchronisation points:                          *)
(*   "lock"    the goroutine is at the entry point's first Lock call       *)
(*   "native"  the goroutine is inside the native (C) call                 *)
(*   "unlock"  the native call has returned, locks are still held          *)
(*   "done"    the entry point has returned; call[g].ret is its result     *)
(* The native library is modelled by the handles it has handed out and     *)
(* released, its event queue, its mixer channel and the status it returns. *)
(***************************************************************************)
EXTENDS Integers, Sequences, FiniteSets, TLC

\* ---------------------------------------------------------------- bounds
MaxWrappers == 8
MaxHandles == 8
MaxDestroys == 3
MaxEvents == 3
EventsCap == 1
NumReaders == 2
LifeWrappers == 2

\* the nil pointer / NULL handle, and the zero value of an Event
Nil == 0

\* the application's goroutines; the collector goroutine is goroutine 0
Procs == {1, 2}
Collector == 0
Readers == 1..NumReaders
Wrappers == 1..MaxWrappers
Handles == 1..MaxHandles

VARIABLES
  pc,                   \* [Procs -> position of the goroutine in its call]
  call,                 \* [Procs -> the call's arguments and locals]
  GlobalMutex,          \* the set of holders: {} unlocked, {g} locked by g
  mutex,                \* [Wrappers -> Surface.mutex: writer w, readers r]
  wkind,                \* [Wrappers -> the Go type of the wrapper, "none" if not created]
  whandle,              \* [Wrappers -> cSurface / cWindow / cRenderer / cTexture / cJoystick / cchunk]
  currentVideoSurface,  \* the package variable
  native,               \* [Handles -> "unalloc" | "live" | "released"], the native library's objects
  mixChannel,           \* the chunk the native mixer has on its channel
  sdlError,             \* the native error message: Nil if none, else the goroutine whose failed call set it
  destroyCalls,         \* [Wrappers -> number of Free / Destroy / Close calls begun on it]
  GOOS,                 \* runtime.GOOS
  env,                  \* the process environment variable SDL_VIDEODRIVER
  nativeQ,              \* the native event queue
  pushed,               \* number of events the native library has queued so far
  cpc,                  \* position of the collector goroutine
  event,                \* the collector's Event object
  pollRet,              \* what the collector's last Event.poll returned
  Events,               \* the Events channel
  dequeued,             \* events SDL_PollEvent has handed out, in order
  published,            \* events sent on the Events channel, in order
  received              \* <<reader, event>> in order of receipt

vars == <<pc, call, GlobalMutex, mutex, wkind, whandle, currentVideoSurface,
          native, mixChannel, sdlError, destroyCalls, GOOS, env,
          nativeQ, pushed, cpc, event, pollRet, Events, dequeued, published, received>>

lockVars == <<GlobalMutex, mutex>>
objVars == <<wkind, whandle, currentVideoSurface, native, mixChannel, sdlError>>
sysVars == <<GOOS, env>>
eventVars == <<nativeQ, pushed, cpc, event, pollRet, Events, dequeued, published, received>>

\* ------------------------------------------------------ the entry points
\* lock: the lock the entry point holds around its native call
\*   "global" GlobalMutex; "swrite" receiver.mutex.Lock; "sread" receiver.mutex.RLock;
\*   "none" no lock
\* recv, arg: the types of the wrappers whose handles are passed to the native call
\* eff: what the native call does to the native library's objects
\*   "geterror" reads and "clearerror" empties the native error message; a failed
\*   "status", "alloc", "play" or "init" call sets it
\* ret: what the entry point returns
Op(lock, recv, arg, eff, ret) ==
  [lock |-> lock, recv |-> recv, arg |-> arg, eff |-> eff, ret |-> ret]

RendererOps ==
     "CreateRenderer"            :> Op("global", "Window", "none", "alloc", "Renderer")
  @@ "Renderer.Clear"            :> Op("global", "Renderer", "none", "none", "none")
  @@ "Renderer.Copy"             :> Op("global", "Renderer", "Texture", "none", "none")
  @@ "Renderer.Present"          :> Op("global", "Renderer", "none", "none", "none")
  @@ "Renderer.SetDrawColor"     :> Op("global", "Renderer", "none", "none", "none")
  @@ "Renderer.FillRect"         :> Op("global", "Renderer", "none", "none", "none")
  @@ "Renderer.Destroy"          :> Op("global", "Renderer", "none", "release", "none")
  @@ "CreateTextureFromSurface"  :> Op("global", "Renderer", "Surface", "alloc", "Texture")
  @@ "Texture.Destroy"           :> Op("global", "Texture", "none", "release", "none")

GeneralOps ==
     "Init"                      :> Op("global", "none", "none", "init", "status")
  @@ "Quit"                      :> Op("global", "none", "none", "none", "none")
  @@ "InitSubSystem"             :> Op("global", "none", "none", "init", "status")
  @@ "QuitSubSystem"             :> Op("global", "none", "none", "none", "none")
  @@ "WasInit"                   :> Op("global", "none", "none", "status", "status")
  @@ "NumDisplayModes"           :> Op("global", "none", "none", "status", "status")
  @@ "GetError"                  :> Op("global", "none", "none", "geterror", "string")
  @@ "ClearError"                :> Op("global", "none", "none", "clearerror", "none")

WindowOps ==
     "CreateWindow"              :> Op("global", "none", "none", "alloc", "Window")
  @@ "Window.GetTitle"           :> Op("global", "Window", "none", "none", "none")
  @@ "Window.SetTitle"           :> Op("global", "Window", "none", "none", "none")
  @@ "Window.SetIcon"            :> Op("global", "Window", "Surface", "none", "none")
  @@ "Window.Destroy"            :> Op("global", "Window", "none", "release", "none")
  @@ "Window.GL_SwapWindow"      :> Op("global", "Window", "none", "none", "none")
  @@ "GL_SetAttribute"           :> Op("global", "none", "none", "status", "status")

SurfaceOps ==
     "Surface.Lock"              :> Op("swrite", "Surface", "none", "status", "status")
  @@ "Surface.Unlock"            :> Op("swrite", "Surface", "none", "none", "none")
  @@ "Surface.FillRect"          :> Op("swrite", "Surface", "none", "status", "status")
  @@ "Surface.SetColorKey"       :> Op("swrite", "Surface", "none", "status", "status")
  @@ "Surface.GetClipRect"       :> Op("sread", "Surface", "none", "none", "none")
  @@ "Surface.SetClipRect"       :> Op("swrite", "Surface", "none", "none", "none")
  @@ "MapRGBA"                   :> Op("none", "none", "none", "none", "none")
  @@ "GetRGBA"                   :> Op("none", "none", "none", "none", "none")
  @@ "Load"                      :> Op("global", "none", "none", "alloc", "Surface")
  @@ "CreateRGBSurface"          :> Op("global", "none", "none", "alloc", "Surface")
  @@ "GetKeyName"                :> Op("global", "none", "none", "none", "none")

InputOps ==
     "GetMouseState"             :> Op("global", "none", "none", "none", "none")
  @@ "GetRelativeMouseState"     :> Op("global", "none", "none", "none", "none")
  @@ "ShowCursor"                :> Op("global", "none", "none", "status", "status")
  @@ "NumJoysticks"              :> Op("global", "none", "none", "status", "status")
  @@ "JoystickOpen"              :> Op("global", "none", "none", "alloc", "Joystick")
  @@ "JoystickUpdate"            :> Op("global", "none", "none", "none", "none")
  @@ "JoystickEventState"        :> Op("global", "none", "none", "status", "status")
  @@ "Joystick.Close"            :> Op("global", "Joystick", "none", "release", "none")
  @@ "Joystick.NumAxes"          :> Op("none", "Joystick", "none", "none", "none")
  @@ "Joystick.NumButtons"       :> Op("none", "Joystick", "none", "none", "none")
  @@ "Joystick.NumBalls"         :> Op("none", "Joystick", "none", "none", "none")
  @@ "Joystick.NumHats"          :> Op("none", "Joystick", "none", "none", "none")
  @@ "Joystick.GetHat"           :> Op("none", "Joystick", "none", "none", "none")
  @@ "Joystick.GetButton"        :> Op("none", "Joystick", "none", "none", "none")
  @@ "Joystick.GetBall"          :> Op("none", "Joystick", "none", "status", "status")
  @@ "Joystick.GetAxis"          :> Op("none", "Joystick", "none", "none", "none")
  @@ "GetTicks"                  :> Op("global", "none", "none", "none", "none")

MixerOps ==
     "mixer.LoadWAV"             :> Op("none", "none", "none", "alloc", "Chunk")
  @@ "Chunk.Free"                :> Op("none", "Chunk", "none", "release", "none")
  @@ "Chunk.Volume"              :> Op("none", "Chunk", "none", "none", "none")
  @@ "Chunk.PlayChannelTimed"    :> Op("none", "Chunk", "none", "play", "status")
  @@ "Chunk.FadeInChannelTimed"  :> Op("none", "Chunk", "none", "play", "status")
  @@ "mixer.GetChunk"            :> Op("none", "none", "none", "getchunk", "Chunk")

OpTable == RendererOps @@ GeneralOps @@ WindowOps @@ SurfaceOps @@ InputOps @@ MixerOps

\* Surface.Blit and Surface.Free take more than one lock and have their own steps.
BlitOp == "Surface.Blit"
FreeOp == "Surface.Free"

\* CreateWindowAndRenderer dereferences its nil window before the native call.
CWROp == "CreateWindowAndRenderer"

PassThrough == DOMAIN OpTable

\* ------------------------------------------------------------ the calls
NewCall(op, a, b, video) ==
  [op |-> op, a |-> a, b |-> b, video |-> video, global |-> FALSE, same |-> FALSE,
   n1 |-> Nil, n2 |-> Nil, nret |-> Nil, ncalls |-> 0, ret |-> Nil]

NoCall == NewCall("none", Nil, Nil, FALSE)

\* the status a native call can return: 0 on success, -1 on failure
Statuses == {0, -1}

InNative(g) == pc[g] = "native"

IsDestroy(op) ==
  \/ op = FreeOp
  \/ (op \in PassThrough /\ OpTable[op].eff = "release")

RECURSIVE SumOver(_, _)
SumOver(f, S) ==
  IF S = {} THEN 0
  ELSE LET x == CHOOSE y \in S : TRUE IN f[x] + SumOver(f, S \ {x})

\* the number of Free / Destroy / Close calls made so far
TotalDestroys == SumOver(destroyCalls, Wrappers)

IsConstructor(op) == op \in PassThrough /\ OpTable[op].eff \in {"alloc", "getchunk"}

Created == {w \in Wrappers : wkind[w] # "none"}

\* the goroutines inside a constructor
Constructing == {g \in Procs : pc[g] \in {"lock", "native", "unlock"} /\ IsConstructor(call[g].op)}

OfKind(k) == IF k = "none" THEN {Nil} ELSE {w \in Wrappers : wkind[w] = k}

\* the lock an entry point takes around its native call
TakesGlobalMutex_NotPresent(op) == OpTable[op].lock = "global" /\ op # "Renderer.Present"

TakesGlobalMutex_AlsoMixer(op) ==
  OpTable[op].lock = "global" \/ op \in DOMAIN MixerOps

TakesGlobalMutex(op) == OpTable[op].lock = "global"

TakesSurfaceWrite(op) == OpTable[op].lock = "swrite"

TakesSurfaceRead(op) == OpTable[op].lock = "sread"

\* sync.RWMutex: Lock excludes everyone, RLock excludes writers
CanLock_Always(s) == TRUE

CanLock(s) == mutex[s].w = Nil /\ mutex[s].r = {}

CanRLock(s) == mutex[s].w = Nil

\* Surface.destroy: the wrapper forgets its native surface
destroy_KeepsHandle(s) == whandle

destroy(s) == [whandle EXCEPT ![s] = Nil]

\* A goroutine calls an entry point: op on receiver a with argument b.
\* cap bounds the number of wrappers constructors may create.
StartCall(g, op, a, b, video, cap) ==
  /\ pc[g] \in {"idle", "done", "panicked"}
  /\ IsDestroy(op) => TotalDestroys < MaxDestroys
  /\ IsConstructor(op) => Cardinality(Created) + Cardinality(Constructing) < cap
  /\ pc' = [pc EXCEPT ![g] =
              IF op = BlitOp THEN "blit_g" ELSE IF op = FreeOp THEN "free_g"
              ELSE IF op = CWROp THEN "cwr_g" ELSE "lock"]
  /\ call' = [call EXCEPT ![g] = NewCall(op, a, b, video)]
  /\ destroyCalls' = IF IsDestroy(op) /\ a # Nil THEN [destroyCalls EXCEPT ![a] = @ + 1]
                     ELSE destroyCalls
  /\ UNCHANGED <<lockVars, objVars, sysVars, eventVars>>

\* the surfaces Quit makes forget their native surface
QuitDestroys_EverySurface == OfKind("Surface")

QuitDestroys ==
  IF currentVideoSurface # Nil THEN {currentVideoSurface} ELSE {}

\* A pass-through entry point takes its lock, evaluates the handles it passes
\* and enters the native call.  Quit first forgets the current video surface.
Acquire(g) ==
  LET c == call[g] IN
  /\ pc[g] = "lock"
  /\ c.op \in PassThrough
  /\ IF TakesGlobalMutex(c.op)
       THEN GlobalMutex = {} /\ GlobalMutex' = {g} /\ mutex' = mutex
     ELSE IF TakesSurfaceWrite(c.op)
       THEN CanLock(c.a) /\ mutex' = [mutex EXCEPT ![c.a].w = g]
            /\ GlobalMutex' = GlobalMutex
     ELSE IF TakesSurfaceRead(c.op)
       THEN CanRLock(c.a) /\ mutex' = [mutex EXCEPT ![c.a].r = @ \cup {g}]
            /\ GlobalMutex' = GlobalMutex
     ELSE UNCHANGED lockVars
  /\ IF c.op = "Quit"
       THEN /\ whandle' = [w \in Wrappers |-> IF w \in QuitDestroys THEN destroy(w)[w]
                                                ELSE whandle[w]]
            /\ currentVideoSurface' = Nil
       ELSE UNCHANGED <<whandle, currentVideoSurface>>
  /\ pc' = [pc EXCEPT ![g] = "native"]
  /\ call' = [call EXCEPT ![g].n1 = IF c.a = Nil THEN Nil ELSE whandle[c.a],
                          ![g].n2 = IF c.b = Nil THEN Nil ELSE whandle[c.b],
                          ![g].ncalls = 1]
  /\ UNCHANGED <<wkind, native, mixChannel, sdlError, destroyCalls, sysVars, eventVars>>

\* the handle a native constructor returns: NULL, or an object it has just made
FreshHandles ==
  LET un == {h \in Handles : native[h] = "unalloc"} IN
  IF un = {} THEN {} ELSE {CHOOSE h \in un : \A k \in un : h <= k}

\* the native release functions: the object is gone; NULL is ignored
NativeRelease(h) == IF h = Nil THEN native ELSE [native EXCEPT ![h] = "released"]

\* a native call that fails leaves its message in the native error buffer
SetError(failed, g) == IF failed THEN g ELSE sdlError

\* SDL_GetError: the message in the native error buffer
GetError_Native == sdlError

\* The native call of a pass-through entry point returns.
NativeReturn(g) ==
  LET c == call[g]
      e == OpTable[c.op].eff IN
  /\ pc[g] = "native"
  /\ c.op \in PassThrough
  /\ e # "init"
  /\ pc' = [pc EXCEPT ![g] = "unlock"]
  /\ \/ /\ e = "none"
        /\ UNCHANGED <<call, native, mixChannel, sdlError>>
     \/ /\ e = "status"
        /\ \E st \in Statuses :
             /\ call' = [call EXCEPT ![g].nret = st]
             /\ sdlError' = SetError(st # 0, g)
        /\ UNCHANGED <<native, mixChannel>>
     \/ /\ e = "alloc"
        /\ \E h \in {Nil} \cup FreshHandles :
             /\ call' = [call EXCEPT ![g].nret = h]
             /\ native' = IF h = Nil THEN native ELSE [native EXCEPT ![h] = "live"]
             /\ sdlError' = SetError(h = Nil, g)
        /\ UNCHANGED mixChannel
     \/ /\ e = "release"
        /\ native' = NativeRelease(c.n1)
        /\ UNCHANGED <<call, mixChannel, sdlError>>
     \/ /\ e = "play"
        /\ \E st \in Statuses :
             /\ call' = [call EXCEPT ![g].nret = st]
             /\ mixChannel' = IF st = 0 THEN c.n1 ELSE mixChannel
             /\ sdlError' = SetError(st # 0, g)
        /\ UNCHANGED native
     \/ /\ e = "getchunk"
        /\ call' = [call EXCEPT ![g].nret = mixChannel]
        /\ UNCHANGED <<native, mixChannel, sdlError>>
     \/ /\ e = "geterror"
        /\ call' = [call EXCEPT ![g].nret = GetError_Native]
        /\ UNCHANGED <<native, mixChannel, sdlError>>
     \/ /\ e = "clearerror"
        /\ sdlError' = Nil
        /\ UNCHANGED <<call, native, mixChannel>>
  /\ UNCHANGED <<lockVars, wkind, whandle, currentVideoSurface, destroyCalls,
                 sysVars, eventVars>>

\* Init / InitSubSystem: the first SDL_Init returns.  On darwin a failed video
\* initialisation with SDL_VIDEODRIVER unset sets it to x11 and calls again.
RetriesInit_Never(st, video) == FALSE

RetriesInit(st, video) ==
  st # 0 /\ GOOS = "darwin" /\ video /\ env = ""

InitReturn(g) ==
  LET c == call[g] IN
  /\ pc[g] = "native"
  /\ c.op \in PassThrough
  /\ OpTable[c.op].eff = "init"
  /\ c.ncalls = 1
  /\ \E st \in Statuses :
       IF RetriesInit(st, c.video)
         THEN /\ env' = "x11"
              /\ call' = [call EXCEPT ![g].nret = st, ![g].ncalls = 2]
              /\ sdlError' = SetError(st # 0, g)
              /\ pc' = pc
         ELSE /\ env' = env
              /\ call' = [call EXCEPT ![g].nret = st]
              /\ sdlError' = SetError(st # 0, g)
              /\ pc' = [pc EXCEPT ![g] = "unlock"]
  /\ UNCHANGED <<lockVars, wkind, whandle, currentVideoSurface, native, mixChannel,
                 destroyCalls, GOOS, eventVars>>

\* the second SDL_Init returns; a second failure empties SDL_VIDEODRIVER
InitRetryReturn(g) ==
  LET c == call[g] IN
  /\ pc[g] = "native"
  /\ c.op \in PassThrough
  /\ OpTable[c.op].eff = "init"
  /\ c.ncalls = 2
  /\ \E st \in Statuses :
       /\ env' = IF st # 0 THEN "" ELSE env
       /\ call' = [call EXCEPT ![g].nret = st]
       /\ sdlError' = SetError(st # 0, g)
  /\ pc' = [pc EXCEPT ![g] = "unlock"]
  /\ UNCHANGED <<lockVars, wkind, whandle, currentVideoSurface, native, mixChannel,
                 destroyCalls, GOOS, eventVars>>

\* wrapSurface / wrapWindow / wrapRenderer / wrapTexture / wrapJoystick and the
\* nil checks of LoadWAV and GetChunk: nil for a NULL handle, else a new wrapper
NewWrapper == CHOOSE w \in Wrappers : wkind[w] = "none" /\ \A v \in Wrappers : wkind[v] = "none" => w <= v

wrap_NoNilCheck(h) == NewWrapper

wrap(h) == IF h # Nil THEN NewWrapper ELSE Nil

\* what a pass-through entry point returns
Result(c) ==
  LET r == OpTable[c.op].ret IN
  IF r = "none" THEN Nil
  ELSE IF r \in {"status", "string"} THEN c.nret
  ELSE wrap(c.nret)

\* The entry point releases its lock and returns.
Release(g) ==
  LET c == call[g]
      w == Result(c) IN
  /\ pc[g] = "unlock"
  /\ c.op \in PassThrough
  /\ IF TakesGlobalMutex(c.op)
       THEN GlobalMutex' = {} /\ mutex' = mutex
     ELSE IF TakesSurfaceWrite(c.op)
       THEN mutex' = [mutex EXCEPT ![c.a].w = Nil] /\ GlobalMutex' = GlobalMutex
     ELSE IF TakesSurfaceRead(c.op)
       THEN mutex' = [mutex EXCEPT ![c.a].r = @ \ {g}] /\ GlobalMutex' = GlobalMutex
     ELSE UNCHANGED lockVars
  /\ IF IsConstructor(c.op) /\ w # Nil
       THEN /\ wkind' = [wkind EXCEPT ![w] = OpTable[c.op].ret]
            /\ whandle' = [whandle EXCEPT ![w] = c.nret]
       ELSE UNCHANGED <<wkind, whandle>>
  /\ call' = [call EXCEPT ![g].ret = w]
  /\ pc' = [pc EXCEPT ![g] = "done"]
  /\ UNCHANGED <<currentVideoSurface, native, mixChannel, sdlError, destroyCalls,
                 sysVars, eventVars>>

\* ------------------------------------------------------------ Surface.Blit
\* dst.Blit(dstrect, src, srcrect): call[g].a is dst, call[g].b is src
BlitLockGlobal(g) ==
  /\ pc[g] = "blit_g"
  /\ GlobalMutex = {}
  /\ GlobalMutex' = {g}
  /\ call' = [call EXCEPT ![g].global = TRUE]
  /\ pc' = [pc EXCEPT ![g] = "blit_cmp"]
  /\ UNCHANGED <<mutex, objVars, destroyCalls, sysVars, eventVars>>

\* whether Blit keeps GlobalMutex for the blit
BlitKeepsGlobal_Always(src, dst) == TRUE

BlitKeepsGlobal(src, dst) ==
  ~((src # currentVideoSurface) /\ (dst # currentVideoSurface))

BlitCompare(g) ==
  LET c == call[g] IN
  /\ pc[g] = "blit_cmp"
  /\ IF BlitKeepsGlobal(c.b, c.a)
       THEN /\ GlobalMutex' = GlobalMutex
            /\ call' = [call EXCEPT ![g].same =
                          (c.b = currentVideoSurface \/ c.a = currentVideoSurface)]
       ELSE /\ GlobalMutex' = {}
            /\ call' = [call EXCEPT ![g].global = FALSE, ![g].same =
                          (c.b = currentVideoSurface \/ c.a = currentVideoSurface)]
  /\ pc' = [pc EXCEPT ![g] = "blit_r"]
  /\ UNCHANGED <<mutex, objVars, destroyCalls, sysVars, eventVars>>

BlitRLockSrc(g) ==
  LET c == call[g] IN
  /\ pc[g] = "blit_r"
  /\ c.b # Nil
  /\ CanRLock(c.b)
  /\ mutex' = [mutex EXCEPT ![c.b].r = @ \cup {g}]
  /\ pc' = [pc EXCEPT ![g] = "blit_w"]
  /\ UNCHANGED <<GlobalMutex, call, objVars, destroyCalls, sysVars, eventVars>>

BlitLockDst(g) ==
  LET c == call[g] IN
  /\ pc[g] = "blit_w"
  /\ c.a # Nil
  /\ CanLock(c.a)
  /\ mutex' = [mutex EXCEPT ![c.a].w = g]
  /\ call' = [call EXCEPT ![g].n1 = whandle[c.b], ![g].n2 = whandle[c.a], ![g].ncalls = 1]
  /\ pc' = [pc EXCEPT ![g] = "native"]
  /\ UNCHANGED <<GlobalMutex, objVars, destroyCalls, sysVars, eventVars>>

BlitNativeReturn(g) ==
  /\ pc[g] = "native"
  /\ call[g].op = BlitOp
  /\ \E st \in Statuses :
       /\ call' = [call EXCEPT ![g].nret = st]
       /\ sdlError' = SetError(st # 0, g)
  /\ pc' = [pc EXCEPT ![g] = "blit_uw"]
  /\ UNCHANGED <<lockVars, wkind, whandle, currentVideoSurface, native, mixChannel,
                 destroyCalls, sysVars, eventVars>>

BlitUnlockDst(g) ==
  /\ pc[g] = "blit_uw"
  /\ mutex' = [mutex EXCEPT ![call[g].a].w = Nil]
  /\ pc' = [pc EXCEPT ![g] = "blit_ur"]
  /\ UNCHANGED <<GlobalMutex, call, objVars, destroyCalls, sysVars, eventVars>>

BlitRUnlockSrc(g) ==
  /\ pc[g] = "blit_ur"
  /\ mutex' = [mutex EXCEPT ![call[g].b].r = @ \ {g}]
  /\ pc' = [pc EXCEPT ![g] = "blit_ug"]
  /\ UNCHANGED <<GlobalMutex, call, objVars, destroyCalls, sysVars, eventVars>>

\* whether Blit unlocks GlobalMutex on exit
BlitUnlocksGlobal_Always(c) == TRUE

BlitUnlocksGlobal(c) == c.global

BlitReturn(g) ==
  /\ pc[g] = "blit_ug"
  /\ GlobalMutex' = IF BlitUnlocksGlobal(call[g]) THEN {} ELSE GlobalMutex
  /\ call' = [call EXCEPT ![g].ret = call[g].nret]
  /\ pc' = [pc EXCEPT ![g] = "done"]
  /\ UNCHANGED <<mutex, objVars, destroyCalls, sysVars, eventVars>>

\* src.mutex.RLock() with a nil src, dst.mutex.Lock() with a nil dst: a nil pointer
\* dereference; the panic leaves Blit with the locks taken so far still held
BlitPanic(g) ==
  LET c == call[g] IN
  /\ \/ pc[g] = "blit_r" /\ c.b = Nil
     \/ pc[g] = "blit_w" /\ c.a = Nil
  /\ pc' = [pc EXCEPT ![g] = "panicked"]
  /\ UNCHANGED <<lockVars, call, objVars, destroyCalls, sysVars, eventVars>>

Blit(g) ==
  \/ BlitLockGlobal(g)
  \/ BlitCompare(g)
  \/ BlitRLockSrc(g)
  \/ BlitLockDst(g)
  \/ BlitNativeReturn(g)
  \/ BlitUnlockDst(g)
  \/ BlitRUnlockSrc(g)
  \/ BlitReturn(g)

\* ------------------------------------------------------------ Surface.Free
FreeLockGlobal(g) ==
  /\ pc[g] = "free_g"
  /\ GlobalMutex = {}
  /\ GlobalMutex' = {g}
  /\ pc' = [pc EXCEPT ![g] = "free_s"]
  /\ UNCHANGED <<mutex, call, objVars, destroyCalls, sysVars, eventVars>>

FreeLockSurface(g) ==
  LET c == call[g] IN
  /\ pc[g] = "free_s"
  /\ c.a # Nil
  /\ CanLock(c.a)
  /\ mutex' = [mutex EXCEPT ![c.a].w = g]
  /\ call' = [call EXCEPT ![g].n1 = whandle[c.a], ![g].ncalls = 1]
  /\ pc' = [pc EXCEPT ![g] = "native"]
  /\ UNCHANGED <<GlobalMutex, objVars, destroyCalls, sysVars, eventVars>>

\* SDL_FreeSurface returns; screen.destroy(); currentVideoSurface is forgotten
FreeNativeReturn(g) ==
  LET c == call[g] IN
  /\ pc[g] = "native"
  /\ c.op = FreeOp
  /\ native' = NativeRelease(c.n1)
  /\ whandle' = destroy(c.a)
  /\ currentVideoSurface' = IF c.a = currentVideoSurface THEN Nil ELSE currentVideoSurface
  /\ pc' = [pc EXCEPT ![g] = "free_us"]
  /\ UNCHANGED <<lockVars, call, wkind, mixChannel, sdlError, destroyCalls, sysVars, eventVars>>

FreeUnlockSurface(g) ==
  /\ pc[g] = "free_us"
  /\ mutex' = [mutex EXCEPT ![call[g].a].w = Nil]
  /\ pc' = [pc EXCEPT ![g] = "free_ug"]
  /\ UNCHANGED <<GlobalMutex, call, objVars, destroyCalls, sysVars, eventVars>>

FreeReturn(g) ==
  /\ pc[g] = "free_ug"
  /\ GlobalMutex' = {}
  /\ pc' = [pc EXCEPT ![g] = "done"]
  /\ UNCHANGED <<mutex, call, objVars, destroyCalls, sysVars, eventVars>>

\* screen.mutex.Lock() with a nil screen: the panic leaves Free with GlobalMutex held
FreePanic(g) ==
  /\ pc[g] = "free_s"
  /\ call[g].a = Nil
  /\ pc' = [pc EXCEPT ![g] = "panicked"]
  /\ UNCHANGED <<lockVars, call, objVars, destroyCalls, sysVars, eventVars>>

Free(g) ==
  \/ FreeLockGlobal(g)
  \/ FreeLockSurface(g)
  \/ FreeNativeReturn(g)
  \/ FreeUnlockSurface(g)
  \/ FreeReturn(g)

\* ------------------------------------------------- CreateWindowAndRenderer
CWRLock(g) ==
  /\ pc[g] = "cwr_g"
  /\ GlobalMutex = {}
  /\ GlobalMutex' = {g}
  /\ pc' = [pc EXCEPT ![g] = "cwr_args"]
  /\ UNCHANGED <<mutex, call, objVars, destroyCalls, sysVars, eventVars>>

\* &win.cWindow with win nil panics before SDL_CreateWindowAndRenderer is called;
\* the deferred GlobalMutex.Unlock() runs as the panic unwinds
CWRPanic(g) ==
  /\ pc[g] = "cwr_args"
  /\ GlobalMutex' = {}
  /\ pc' = [pc EXCEPT ![g] = "panicked"]
  /\ UNCHANGED <<mutex, call, objVars, destroyCalls, sysVars, eventVars>>

CreateWindowAndRenderer(g) == CWRLock(g) \/ CWRPanic(g)

\* ------------------------------------------------------------- the events
\* SDL_PollEvent: 0 and the event untouched when the queue is empty, else 1 and
\* the head of the queue copied into the event
PollEvent(q, ev) ==
  IF q = <<>> THEN [ret |-> 0, ev |-> ev, q |-> q]
  ELSE [ret |-> 1, ev |-> Head(q), q |-> Tail(q)]

\* Event.poll, between its Lock and Unlock
poll_AlwaysTrue(q, ev) ==
  LET r == PollEvent(q, ev) IN [ok |-> TRUE, ev |-> r.ev, q |-> r.q]

poll_Inverted(q, ev) ==
  LET r == PollEvent(q, ev) IN [ok |-> r.ret = 0, ev |-> r.ev, q |-> r.q]

poll(q, ev) ==
  LET r == PollEvent(q, ev) IN [ok |-> r.ret # 0, ev |-> r.ev, q |-> r.q]

\* the native library queues the next input event
NativePush ==
  /\ pushed < MaxEvents
  /\ pushed' = pushed + 1
  /\ nativeQ' = Append(nativeQ, pushed + 1)
  /\ UNCHANGED <<pc, call, lockVars, objVars, destroyCalls, sysVars,
                 cpc, event, pollRet, Events, dequeued, published, received>>

PollLock ==
  /\ cpc = "poll_lock"
  /\ GlobalMutex = {}
  /\ GlobalMutex' = {Collector}
  /\ cpc' = "poll_native"
  /\ UNCHANGED <<pc, call, mutex, objVars, destroyCalls, sysVars,
                 nativeQ, pushed, event, pollRet, Events, dequeued, published, received>>

PollNativeReturn ==
  LET r == poll(nativeQ, event) IN
  /\ cpc = "poll_native"
  /\ event' = r.ev
  /\ nativeQ' = r.q
  /\ pollRet' = r.ok
  /\ dequeued' = IF nativeQ = <<>> THEN dequeued ELSE Append(dequeued, Head(nativeQ))
  /\ cpc' = "poll_unlock"
  /\ UNCHANGED <<pc, call, lockVars, objVars, destroyCalls, sysVars,
                 pushed, Events, published, received>>

\* the holders of GlobalMutex after poll's GlobalMutex.Unlock()
pollUnlocked_StillHeld(holders) == holders

pollUnlocked(holders) == holders \ {Collector}

\* poll unlocks and returns; the collector publishes the event if there was one
\* and polls again otherwise
PollUnlock ==
  /\ cpc = "poll_unlock"
  /\ GlobalMutex' = pollUnlocked(GlobalMutex)
  /\ cpc' = IF pollRet THEN "send" ELSE "poll_lock"
  /\ UNCHANGED <<pc, call, mutex, objVars, destroyCalls, sysVars,
                 nativeQ, pushed, event, pollRet, Events, dequeued, published, received>>

\* the collector sends a copy of the event on the Events channel
Publish ==
  /\ cpc = "send"
  /\ Len(Events) < EventsCap
  /\ Events' = Append(Events, event)
  /\ published' = Append(published, event)
  /\ cpc' = "poll_lock"
  /\ UNCHANGED <<pc, call, lockVars, objVars, destroyCalls, sysVars,
                 nativeQ, pushed, event, pollRet, dequeued, received>>

\* a reader receives from the Events channel
Receive(r) ==
  /\ Events # <<>>
  /\ received' = Append(received, <<r, Head(Events)>>)
  /\ Events' = Tail(Events)
  /\ UNCHANGED <<pc, call, lockVars, objVars, destroyCalls, sysVars,
                 nativeQ, pushed, cpc, event, pollRet, dequeued, published>>

CollectorStep == PollLock \/ PollNativeReturn \/ PollUnlock \/ Publish

\* --------------------------------------------------------- initial states
Unheld == [w |-> Nil, r |-> {}]

InitCommon ==
  /\ pc = [g \in Procs |-> "idle"]
  /\ call = [g \in Procs |-> NoCall]
  /\ GlobalMutex = {}
  /\ mutex = [w \in Wrappers |-> Unheld]
  /\ currentVideoSurface = Nil
  /\ mixChannel = Nil
  /\ sdlError = Nil
  /\ destroyCalls = [w \in Wrappers |-> 0]
  /\ nativeQ = <<>>
  /\ pushed = 0
  /\ cpc = "poll_lock"
  /\ event = Nil
  /\ pollRet = FALSE
  /\ Events = <<>>
  /\ dequeued = <<>>
  /\ published = <<>>
  /\ received = <<>>

\* wrappers 1..n exist, wrapper w holding the live native object w
Wrapped(kinds) ==
  /\ wkind = [w \in Wrappers |-> IF w <= Len(kinds) THEN kinds[w] ELSE "none"]
  /\ whandle = [w \in Wrappers |-> IF w <= Len(kinds) THEN w ELSE Nil]
  /\ native = [h \in Handles |-> IF h <= Len(kinds) THEN "live" ELSE "unalloc"]

\* ---------------------------------------------------------- specifications
Start(g, ops, cap) ==
  \E op \in ops :
    \E a \in OfKind(OpTable[op].recv), b \in OfKind(OpTable[op].arg) :
      \E video \in (IF OpTable[op].eff = "init" THEN BOOLEAN ELSE {FALSE}) :
        StartCall(g, op, a, b, video, cap)

StartBlit(g) ==
  \E dst \in OfKind("Surface"), src \in OfKind("Surface") :
    StartCall(g, BlitOp, dst, src, FALSE, 0)

StartFree(g) ==
  \E s \in OfKind("Surface") : StartCall(g, FreeOp, s, Nil, FALSE, 0)

PassThroughStep(g) == Acquire(g) \/ NativeReturn(g) \/ Release(g)

InitStep(g) == InitReturn(g) \/ InitRetryReturn(g)

\* Spec: a program that has made two surfaces, a window, a renderer and a
\* joystick; its goroutines call sdl entry points of every kind of locking
\* while the collector polls a native queue that stays empty.
Init ==
  /\ InitCommon
  /\ Wrapped(<<"Surface", "Surface", "Window", "Renderer", "Joystick">>)
  /\ GOOS = "linux"
  /\ env = ""

ConcurrentOps ==
  {"Renderer.Present", "Window.SetIcon", "Quit", "GetError",
   "Surface.FillRect", "Surface.GetClipRect", "Joystick.GetAxis", "MapRGBA"}

Next ==
  \/ \E g \in Procs :
       \/ Start(g, ConcurrentOps, 0)
       \/ StartBlit(g)
       \/ StartFree(g)
       \/ PassThroughStep(g)
       \/ Blit(g)
       \/ Free(g)
  \/ PollLock
  \/ PollNativeReturn
  \/ PollUnlock

Spec == Init /\ [][Next]_vars

\* SpecSurf: a program that has made four surfaces and a renderer; its
\* goroutines call the surface-level functions and Renderer.Present.
InitSurf ==
  /\ InitCommon
  /\ Wrapped(<<"Surface", "Surface", "Surface", "Surface", "Renderer">>)
  /\ GOOS = "linux"
  /\ env = ""

SurfaceLevelOps ==
  {"Surface.Lock", "Surface.Unlock", "Surface.FillRect", "Surface.SetColorKey",
   "Surface.GetClipRect", "Surface.SetClipRect"}

NextSurf ==
  \E g \in Procs :
    \/ Start(g, SurfaceLevelOps \cup {"Renderer.Present"}, 0)
    \/ StartBlit(g)
    \/ PassThroughStep(g)
    \/ Blit(g)

SpecSurf == InitSurf /\ [][NextSurf]_vars

\* SpecMix: a program that has made a renderer and loaded a chunk; its
\* goroutines call the mixer's chunk operations and sdl functions.
InitMix ==
  /\ InitCommon
  /\ Wrapped(<<"Renderer", "Chunk">>)
  /\ GOOS = "linux"
  /\ env = ""

ChunkOps == DOMAIN MixerOps

NextMix ==
  \E g \in Procs :
    \/ Start(g, ChunkOps \cup {"Renderer.Present", "GetError"}, LifeWrappers)
    \/ PassThroughStep(g)

SpecMix == InitMix /\ [][NextMix]_vars

\* SpecLife: one goroutine makes wrappers, uses them and destroys them, starting
\* from a program that has a window, a renderer and a surface.
InitLife ==
  /\ InitCommon
  /\ Wrapped(<<"Window", "Renderer", "Surface">>)
  /\ GOOS = "linux"
  /\ env = ""

LifeOps ==
  {"CreateWindow", "CreateRenderer", "CreateTextureFromSurface", "Load",
   "CreateRGBSurface", "JoystickOpen", "mixer.LoadWAV", "mixer.GetChunk",
   "Window.Destroy", "Renderer.Destroy", "Texture.Destroy", "Joystick.Close",
   "Chunk.Free", "Chunk.PlayChannelTimed", "Quit"}

NextLife ==
  \/ Start(1, LifeOps, 3 + LifeWrappers)
  \/ StartFree(1)
  \/ PassThroughStep(1)
  \/ Free(1)

SpecLife == InitLife /\ [][NextLife]_vars

\* SpecInit: one goroutine calls the status-returning entry points, on either
\* operating system and with SDL_VIDEODRIVER set or not.
InitStatus ==
  /\ InitCommon
  /\ Wrapped(<<"Surface", "Surface">>)
  /\ GOOS \in {"darwin", "linux"}
  /\ env \in {"", "wayland"}

StatusOps ==
  {"Init", "InitSubSystem", "GL_SetAttribute", "WasInit", "Surface.Lock",
   "Surface.FillRect", "Surface.SetColorKey"}

NextInit ==
  \/ Start(1, StatusOps, 0)
  \/ StartBlit(1)
  \/ PassThroughStep(1)
  \/ InitStep(1)
  \/ Blit(1)

SpecInit == InitStatus /\ [][NextInit]_vars

\* SpecEvents: the native library queues events, the collector polls and
\* publishes them, the readers receive them, and a goroutine calls GetError.
NextEvents ==
  \/ NativePush
  \/ CollectorStep
  \/ \E r \in Readers : Receive(r)
  \/ Start(1, {"GetError"}, 0)
  \/ PassThroughStep(1)

SpecEvents == Init /\ [][NextEvents]_vars

\* the collector goroutine keeps running and some reader keeps receiving
FairSpecEvents ==
  /\ SpecEvents
  /\ WF_vars(CollectorStep)
  /\ WF_vars(\E r \in Readers : Receive(r))

\* SpecBlit: a program that has made two surfaces; its goroutines blit between
\* them in every combination (also a surface onto itself) while others fill,
\* lock, unlock and free the same surfaces.
InitBlit ==
  /\ InitCommon
  /\ Wrapped(<<"Surface", "Surface">>)
  /\ GOOS = "linux"
  /\ env = ""

BlitRivals == {"Surface.FillRect", "Surface.Lock", "Surface.Unlock"}

NextBlit ==
  \E g \in Procs :
    \/ Start(g, BlitRivals, 0)
    \/ StartBlit(g)
    \/ StartFree(g)
    \/ PassThroughStep(g)
    \/ Blit(g)
    \/ Free(g)

SpecBlit == InitBlit /\ [][NextBlit]_vars

\* fair scheduling and fair locks: a goroutine inside a call that can take its
\* next step again and again eventually takes it
FairSpecBlit ==
  /\ SpecBlit
  /\ \A g \in Procs : SF_vars(PassThroughStep(g) \/ Blit(g) \/ Free(g))

\* SpecExit: a program that has made two surfaces and a renderer; its goroutines
\* call Blit and Free with surfaces or nil, CreateWindowAndRenderer and other sdl
\* functions, recover from the panics and go on calling.
InitExit ==
  /\ InitCommon
  /\ Wrapped(<<"Surface", "Surface", "Renderer">>)
  /\ GOOS = "linux"
  /\ env = ""

SurfaceOrNil == OfKind("Surface") \cup {Nil}

StartBlitArgs(g) ==
  \E dst \in SurfaceOrNil, src \in SurfaceOrNil : StartCall(g, BlitOp, dst, src, FALSE, 0)

StartFreeArgs(g) ==
  \E s \in SurfaceOrNil : StartCall(g, FreeOp, s, Nil, FALSE, 0)

StartCWR(g) == StartCall(g, CWROp, Nil, Nil, FALSE, 0)

ExitOps == {"Renderer.Present", "GetError", "Surface.FillRect"}

NextExit ==
  \E g \in Procs :
    \/ Start(g, ExitOps, 0)
    \/ StartBlitArgs(g)
    \/ StartFreeArgs(g)
    \/ StartCWR(g)
    \/ PassThroughStep(g)
    \/ Blit(g)
    \/ BlitPanic(g)
    \/ Free(g)
    \/ FreePanic(g)
    \/ CreateWindowAndRenderer(g)

SpecExit == InitExit /\ [][NextExit]_vars

\* SpecShare: a program that has made two surfaces, a window and a renderer; its
\* goroutines pass the surfaces to surface methods, to Window.SetIcon and to
\* CreateTextureFromSurface, and free them.
InitShare ==
  /\ InitCommon
  /\ Wrapped(<<"Surface", "Surface", "Window", "Renderer">>)
  /\ GOOS = "linux"
  /\ env = ""

ShareOps ==
  {"Window.SetIcon", "CreateTextureFromSurface", "Surface.FillRect",
   "Surface.GetClipRect"}

NextShare ==
  \E g \in Procs :
    \/ Start(g, ShareOps, 3 + LifeWrappers)
    \/ StartBlit(g)
    \/ StartFree(g)
    \/ PassThroughStep(g)
    \/ Blit(g)
    \/ Free(g)

SpecShare == InitShare /\ [][NextShare]_vars

\* SpecErr: a program that has made a surface; its goroutines make calls that can
\* fail, call GetError right after a call of their own has failed, as main does,
\* and call ClearError.
InitErr ==
  /\ InitCommon
  /\ Wrapped(<<"Surface">>)
  /\ GOOS = "linux"
  /\ env = ""

FailingOps == {"GL_SetAttribute", "CreateRGBSurface", "Surface.FillRect", "ClearError"}

\* the goroutine's last call has returned a failure: a non-zero status or nil
JustFailed(g) ==
  LET c == call[g] IN
  /\ pc[g] = "done"
  /\ \/ c.op \in PassThrough /\ OpTable[c.op].ret = "status" /\ c.ret # 0
     \/ IsConstructor(c.op) /\ c.ret = Nil

StartGetError(g) ==
  /\ JustFailed(g)
  /\ StartCall(g, "GetError", Nil, Nil, FALSE, 0)

NextErr ==
  \E g \in Procs :
    \/ Start(g, FailingOps, 1 + LifeWrappers)
    \/ StartGetError(g)
    \/ PassThroughStep(g)

SpecErr == InitErr /\ [][NextErr]_vars

\* ------------------------------------------------------------------ claims
\* the goroutines that are inside a native call
NativeCallers ==
  {g \in Procs : InNative(g)} \cup (IF cpc = "poll_native" THEN {Collector} ELSE {})

OpOf(g) == IF g = Collector THEN "Event.poll" ELSE call[g].op

\* the entry points C1 names that lock GlobalMutex around their native call: the
\* renderer, texture, window, init/quit, error, mouse and event-poll entry points
GlobalEntryPoints ==
  DOMAIN RendererOps \cup DOMAIN GeneralOps \cup DOMAIN WindowOps
    \cup {"GetMouseState", "GetRelativeMouseState", "ShowCursor", "Event.poll", FreeOp}

\* C1 as stated: every sdl entry point holds GlobalMutex for the whole of its
\* native call, so no two native calls made through package sdl overlap.
C1_AllNativeCallsSerialized ==
  /\ Cardinality(NativeCallers) <= 1
  /\ \A g \in NativeCallers : GlobalMutex = {g}

\* C1 amended: the renderer, texture, window, init/quit, error, mouse and event-poll
\* entry points and Surface.Free hold GlobalMutex for the whole of their native call,
\* so no two of their native calls overlap; the surface-level functions hold the
\* mutex of the surface they are called on instead (Blit: dst for writing, src for
\* reading), and the joystick queries and MapRGBA / GetRGBA hold no lock at all.
C1_GlobalEntryPointsSerialized ==
  /\ \A g \in NativeCallers : OpOf(g) \in GlobalEntryPoints => GlobalMutex = {g}
  /\ \A g, k \in NativeCallers :
       (OpOf(g) \in GlobalEntryPoints /\ OpOf(k) \in GlobalEntryPoints) => g = k
  /\ \A g \in Procs :
       InNative(g) =>
         LET c == call[g] IN
         /\ c.op \in {"Surface.FillRect", "Surface.Lock", "Surface.Unlock",
                      "Surface.SetColorKey", "Surface.SetClipRect"}
              => (mutex[c.a].w = g /\ g \notin GlobalMutex)
         /\ c.op = "Surface.GetClipRect" => (g \in mutex[c.a].r /\ g \notin GlobalMutex)
         /\ c.op = BlitOp => (mutex[c.a].w = g /\ g \in mutex[c.b].r)
         /\ c.op \in {"Joystick.GetAxis", "Joystick.NumAxes", "Joystick.GetButton",
                      "Joystick.GetHat", "Joystick.GetBall", "MapRGBA", "GetRGBA"}
              => (g \notin GlobalMutex /\ \A s \in Wrappers : mutex[s].w # g /\ g \notin mutex[s].r)

\* a GlobalMutex-guarded native call (Renderer.Present) overlapping a joystick
\* query's native call
C1_Witness ==
  \E g, k \in Procs :
    /\ InNative(g) /\ call[g].op = "Renderer.Present" /\ GlobalMutex = {g}
    /\ InNative(k) /\ call[k].op = "Joystick.GetAxis"

\* C4: a Blit between surfaces that are not the current video surface, and a
\* FillRect, hold inside their native call neither GlobalMutex nor the mutex of any
\* surface but their own, so calls on unrelated surfaces run concurrently.
C4_UnrelatedSurfacesNotExcluded ==
  \A g \in Procs :
    LET c == call[g] IN
    /\ (InNative(g) /\ c.op = BlitOp /\ c.a # currentVideoSurface /\ c.b # currentVideoSurface)
         => /\ g \notin GlobalMutex
            /\ \A s \in Wrappers \ {c.a, c.b} : mutex[s].w # g /\ g \notin mutex[s].r
    /\ (InNative(g) /\ c.op = "Surface.FillRect")
         => /\ g \notin GlobalMutex
            /\ \A s \in Wrappers \ {c.a} : mutex[s].w # g /\ g \notin mutex[s].r

\* two goroutines inside the native blit of A.Blit(_, B, _) and of C.Blit(_, D, _),
\* A, B, C, D pairwise distinct and none of them the current video surface
C4_Witness ==
  \E g, k \in Procs :
    /\ InNative(g) /\ call[g].op = BlitOp
    /\ InNative(k) /\ call[k].op = BlitOp
    /\ Cardinality({call[g].a, call[g].b, call[k].a, call[k].b}) = 4
    /\ currentVideoSurface \notin {call[g].a, call[g].b, call[k].a, call[k].b}

\* C9 as stated: none of Surface.Blit, FillRect, SetColorKey, GetClipRect,
\* SetClipRect, Lock and Unlock ever acquires or waits for GlobalMutex.
C9_SurfaceFunctionsNeverUseGlobalMutex ==
  \A g \in Procs :
    (call[g].op \in SurfaceLevelOps \cup {BlitOp} /\ pc[g] \notin {"idle", "done"})
      => /\ g \notin GlobalMutex
         /\ ~(pc[g] = "blit_g" /\ GlobalMutex # {})

\* C10 as stated: the native call of a chunk operation never overlaps another
\* chunk operation's or an sdl function's native call.
C10_ChunkCallsSerialized ==
  \A g, k \in Procs :
    (g # k /\ InNative(g) /\ InNative(k)) =>
      (call[g].op \notin ChunkOps /\ call[k].op \notin ChunkOps)

\* C10 amended: the chunk operations take no mutex: a goroutine in a chunk
\* operation never holds GlobalMutex and is never made to wait, so its native call
\* can overlap any other native call; only the native calls of sdl functions that
\* lock GlobalMutex exclude one another.
C10_ChunkOpsTakeNoMutex ==
  /\ \A g \in Procs :
       (call[g].op \in ChunkOps /\ pc[g] \in {"lock", "native", "unlock"})
         => /\ g \notin GlobalMutex
            /\ \A s \in Wrappers : mutex[s].w # g /\ g \notin mutex[s].r
            /\ ENABLED PassThroughStep(g)
  /\ \A g \in Procs :
       (InNative(g) /\ call[g].op \in {"Renderer.Present", "GetError"}) => GlobalMutex = {g}

\* Chunk.Free and Chunk.PlayChannelTimed inside their native calls at the same
\* time, on the same native chunk
C10_Witness ==
  \E g, k \in Procs :
    /\ InNative(g) /\ call[g].op = "Chunk.Free"
    /\ InNative(k) /\ call[k].op = "Chunk.PlayChannelTimed"
    /\ call[g].n1 = call[k].n1 /\ call[g].n1 # Nil

IsPrefix(a, b) == Len(a) <= Len(b) /\ \A i \in 1..Len(a) : a[i] = b[i]

\* the events received, whoever received them, in order of receipt
ReceivedEvents == [i \in 1..Len(received) |-> received[i][2]]

C3_AllEventsDelivered ==
  /\ [](/\ \A i \in 1..Len(received) : \E j \in 1..Len(dequeued) : received[i][2] = dequeued[j]
        /\ \A i, j \in 1..Len(received) : received[i][2] = received[j][2] => i = j
        /\ Len(published) <= Len(dequeued))
  /\ \A n \in 1..MaxEvents : (Len(dequeued) >= n) ~> (Len(published) >= n)

\* every event the native library queued has been dequeued, published and received
C3_Witness ==
  /\ Len(dequeued) = MaxEvents
  /\ Len(received) = MaxEvents
  /\ \A n \in 1..MaxEvents : received[n][2] = n

\* C5 as stated: a wrapper whose own Free / Destroy / Close has not been called
\* holds a non-nil handle that has not been released.
C5_ValidUntilOwnDestroy ==
  \A w \in Created :
    destroyCalls[w] = 0 => (whandle[w] # Nil /\ native[whandle[w]] = "live")

\* C5 amended: a wrapper whose own Free / Destroy / Close has not been called holds
\* a non-nil handle, and the handle has not been released unless the wrapper is a
\* Chunk sharing its native chunk with another Chunk wrapper (GetChunk wraps the
\* chunk last played on the channel, freed or not) on which Free has been called.
C5_ValidUntilDestroyOfTheHandle ==
  \A w \in Created :
    destroyCalls[w] = 0 =>
      /\ whandle[w] # Nil
      /\ \/ native[whandle[w]] = "live"
         \/ /\ wkind[w] = "Chunk"
            /\ \E v \in Created \ {w} :
                 wkind[v] = "Chunk" /\ whandle[v] = whandle[w] /\ destroyCalls[v] > 0

\* a chunk wrapper never freed whose native chunk was released through another wrapper
C5_Witness ==
  \E w \in Created :
    /\ wkind[w] = "Chunk" /\ destroyCalls[w] = 0
    /\ whandle[w] # Nil /\ native[whandle[w]] = "released"

\* C6 as stated: for every handle type, a second destroy call on the same wrapper
\* hands the same, already released, non-nil handle to the native release function.
C6_SecondDestroyReleasesAgain ==
  \A g \in Procs :
    (InNative(g) /\ IsDestroy(call[g].op) /\ destroyCalls[call[g].a] >= 2)
      => (call[g].n1 # Nil /\ native[call[g].n1] = "released")

\* C6 amended: a second Destroy / Close / Free on the same window, renderer, texture,
\* joystick or chunk wrapper hands the same, already released, non-nil handle to the
\* native release function again; a second Surface.Free hands it nil, because the
\* first Free cleared the wrapper's handle.
C6_SecondDestroyExceptSurface ==
  \A g \in Procs :
    (InNative(g) /\ IsDestroy(call[g].op) /\ destroyCalls[call[g].a] >= 2)
      => IF call[g].op = FreeOp
           THEN call[g].n1 = Nil
           ELSE /\ call[g].n1 # Nil
                /\ call[g].n1 = whandle[call[g].a]
                /\ native[call[g].n1] = "released"

\* a second Renderer.Destroy inside SDL_DestroyRenderer with the released handle
C6_Witness ==
  \E g \in Procs :
    /\ InNative(g) /\ call[g].op = "Renderer.Destroy"
    /\ destroyCalls[call[g].a] = 2
    /\ native[call[g].n1] = "released"

StatusReturning(op) ==
  op = BlitOp \/ (op \in PassThrough /\ OpTable[op].ret = "status")

\* C7 as stated: a status-returning operation makes exactly one native call and
\* returns its status unchanged, and never changes SDL_VIDEODRIVER.
C7_NoRecoveryLogic ==
  /\ \A g \in Procs : call[g].ncalls <= 1
  /\ \A g \in Procs :
       (pc[g] = "done" /\ StatusReturning(call[g].op)) => call[g].ret = call[g].nret
  /\ env # "x11"

\* C7 amended: a status-returning operation makes one native call and returns its
\* status unchanged, except Init and InitSubSystem on darwin: when the call fails
\* with INIT_VIDEO requested and SDL_VIDEODRIVER empty they set SDL_VIDEODRIVER to
\* x11 and call once more, return the second status, and empty SDL_VIDEODRIVER
\* again if that call fails too.
C7_OnlyInitRetries ==
  \A g \in Procs :
    LET c == call[g] IN
    /\ c.ncalls <= 2
    /\ c.ncalls = 2 => (c.op \in {"Init", "InitSubSystem"} /\ GOOS = "darwin" /\ c.video)
    /\ (pc[g] = "done" /\ StatusReturning(c.op)) => c.ret = c.nret
    /\ (pc[g] = "done" /\ c.ncalls = 2) => env = (IF c.ret = 0 THEN "x11" ELSE "")
    /\ (pc[g] = "done" /\ c.op \in {"Init", "InitSubSystem"} /\ c.ret # 0
          /\ GOOS = "darwin" /\ c.video)
         => (c.ncalls = 2 \/ env # "")

\* Init has failed twice on darwin and has emptied SDL_VIDEODRIVER
C7_Witness ==
  \E g \in Procs :
    /\ pc[g] = "done" /\ call[g].op = "Init" /\ call[g].ncalls = 2
    /\ call[g].ret = -1 /\ env = ""

\* C8: a constructor returns nil exactly when the native call returned NULL, and
\* otherwise a wrapper that did not exist before, of the constructor's type, holding
\* exactly the handle the native call returned; GlobalMutex is released either way.
C8_ConstructorsReportFailureAsNil ==
  [][\A g \in Procs :
       (pc[g] = "unlock" /\ pc'[g] = "done" /\ IsConstructor(call[g].op)) =>
         LET r == call'[g].ret IN
         /\ (r = Nil) <=> (call[g].nret = Nil)
         /\ r # Nil => /\ wkind[r] = "none"
                       /\ wkind'[r] = OpTable[call[g].op].ret
                       /\ whandle'[r] = call[g].nret
         /\ r = Nil => (wkind' = wkind /\ whandle' = whandle)
         /\ g \notin GlobalMutex']_vars

\* one constructor has returned nil and another a wrapper
C8_Witness ==
  /\ pc[1] = "done" /\ call[1].op = "mixer.LoadWAV" /\ call[1].ret = Nil
  /\ \E w \in Created : wkind[w] = "Joystick" /\ whandle[w] # Nil

\* C11 as stated: under fair scheduling every call dst.Blit(_, src, _) eventually
\* returns, whatever src and dst are and whatever other goroutines call on them.
C11_BlitNeverDeadlocks ==
  \A g \in Procs :
    (call[g].op = BlitOp /\ pc[g] = "blit_g") ~> (call[g].op = BlitOp /\ pc[g] = "done")

\* the goroutines that are between Blit's comparison with currentVideoSurface and
\* its return
AfterCompare(g) ==
  call[g].op = BlitOp /\ pc[g] \in {"blit_r", "blit_w", "native", "blit_uw", "blit_ur", "blit_ug"}

\* C12: from its comparison at entry on, and so inside the native blit, a Blit holds
\* GlobalMutex if and only if src or dst was identical to currentVideoSurface when
\* it compared them; a Blit that does not hold it leaves GlobalMutex alone on exit.
C12_BlitHoldsGlobalIffVideoSurface ==
  /\ [](\A g \in Procs : AfterCompare(g) => ((g \in GlobalMutex) <=> call[g].same))
  /\ [][\A g \in Procs :
          (pc[g] = "blit_ug" /\ pc'[g] = "done" /\ ~call[g].same)
            => GlobalMutex' = GlobalMutex]_vars

\* a goroutine inside the native blit of two ordinary surfaces, without GlobalMutex,
\* while another goroutine holds GlobalMutex, and the other goroutine's Blit with a
\* nil src past its comparison with GlobalMutex still held
C12_Witness ==
  \E g, k \in Procs :
    /\ InNative(g) /\ call[g].op = BlitOp /\ ~call[g].same
    /\ call[k].op = BlitOp /\ call[k].b = Nil /\ pc[k] = "blit_r" /\ GlobalMutex = {k}

\* C13 as stated: a goroutine that is not inside a call, whether its last call
\* returned or panicked, holds neither GlobalMutex nor any surface's mutex.
C13_LocksReleasedOnEveryExit ==
  \A g \in Procs :
    pc[g] \in {"idle", "done", "panicked"} =>
      /\ g \notin GlobalMutex
      /\ \A s \in Wrappers : mutex[s].w # g /\ g \notin mutex[s].r

\* the non-nil surface pointers goroutine g's native call has received
SurfacePointers(g) ==
  LET c == call[g] IN
  (IF ~InNative(g) THEN {}
   ELSE IF c.op \in {BlitOp} THEN {c.n1, c.n2}
   ELSE IF c.op = FreeOp THEN {c.n1}
   ELSE IF c.op \in PassThrough /\ OpTable[c.op].recv = "Surface" THEN {c.n1}
   ELSE IF c.op \in PassThrough /\ OpTable[c.op].arg = "Surface" THEN {c.n2}
   ELSE {}) \ {Nil}

\* the non-nil surface pointers goroutine g's native call writes through
WrittenPointers(g) ==
  LET c == call[g] IN
  (IF ~InNative(g) THEN {}
   ELSE IF c.op = BlitOp THEN {c.n2}
   ELSE IF c.op = FreeOp THEN {c.n1}
   ELSE IF c.op \in PassThrough /\ TakesSurfaceWrite(c.op) THEN {c.n1}
   ELSE {}) \ {Nil}

\* C14 as stated: while a goroutine is inside a native call that writes surface S,
\* no other goroutine is inside a native call that has received S's native pointer.
C14_PerSurfaceExclusion ==
  \A g, k \in Procs :
    g # k => WrittenPointers(g) \cap SurfacePointers(k) = {}

\* C15: a surface pointer that a native call in progress has received has not been
\* released: an operation on a freed surface passes nil.
C15_NoReleasedSurfacePointer ==
  \A g \in Procs : \A h \in SurfacePointers(g) : native[h] = "live"

\* Window.SetIcon(S) inside its native call after S.Free released S's surface,
\* passing nil, while the other goroutine fills the other surface
C15_Witness ==
  \E g, k \in Procs :
    /\ InNative(g) /\ call[g].op = "Window.SetIcon"
    /\ destroyCalls[call[g].b] >= 1 /\ call[g].n2 = Nil
    /\ \E h \in Handles : native[h] = "released"
    /\ InNative(k) /\ call[k].op = "Surface.FillRect" /\ call[k].n1 # Nil

\* C16 as stated: GetError called by a goroutine right after a call of its own
\* failed returns the error message that failed call set, whatever the other
\* goroutines do in between.
C16_GetErrorReturnsOwnError ==
  \A g \in Procs :
    (pc[g] = "done" /\ call[g].op = "GetError") => call[g].ret = g

\* C17: the collector holds GlobalMutex only inside Event.poll, around one native
\* poll call; while it is publishing an event, blocked or not, or about to poll
\* again, it does not hold GlobalMutex, and a goroutine waiting for GlobalMutex
\* that no application goroutine holds can take it.
C17_CollectorHoldsGlobalOnlyInPoll ==
  /\ (Collector \in GlobalMutex) <=> (cpc \in {"poll_native", "poll_unlock"})
  /\ \A g \in Procs :
       (/\ pc[g] = "lock" /\ TakesGlobalMutex(call[g].op)
        /\ cpc \in {"send", "poll_lock"}
        /\ GlobalMutex \cap Procs = {})
         => ENABLED Acquire(g)

\* the collector is blocked publishing an event on the full Events channel, the
\* native queue is empty, and a goroutine is inside GetError holding GlobalMutex
C17_Witness ==
  /\ cpc = "send" /\ Len(Events) = EventsCap /\ nativeQ = <<>>
  /\ InNative(1) /\ call[1].op = "GetError" /\ GlobalMutex = {1}

====
